---- MODULE Spec2Model ----
(***************************************************************************)
(* Model of app.py, a Streamlit PDF chatbot.  Every user interaction       *)
(* re-executes the script from its first line; st.session_state is the     *)
(* only state that survives from one run to the next.  A run is modelled   *)
(* by the program counter pc walking through the script's sections.        *)
(*                                                                         *)
(* Texts the normalizer and the router look into are sequences of          *)
(* one-character strings; chunk texts are atomic strings.                  *)
(***************************************************************************)
EXTENDS Integers, Sequences, FiniteSets, TLC

VARIABLES
    google_api_key,     \* GOOGLE_API_KEY present in the environment
    groqcloud_api_key,  \* GROQ_API_KEY present in the environment
    pc,                 \* position of the current script run
    uploaded_file,      \* value of the file_uploader widget
    button,             \* st.button("Send") is true in this run
    session_state,      \* st.session_state: a value for each key it holds
    shown,              \* what this run has displayed (st.error, st.info, exception)
    page_loaded,        \* this run has executed load_streamlit_page
    arg_chunks,         \* the calls of create_vectorstore: their chunks
    handed,             \* the calls of FAISS.from_documents: their arguments
    query,              \* the calls of summary_function and query_document
    norm                \* successive passes of preprocess_question

vars == <<google_api_key, groqcloud_api_key, pc, uploaded_file, button,
          session_state, shown, page_loaded, arg_chunks, handed, query,
          norm>>

\* ------------------------------------------------------------------ bounds
MaxFiles  == 2      \* files selected in the uploader at once
MaxTurns  == 2      \* chat turns recorded over all models
MaxChunks == 3      \* chunks passed to create_vectorstore on its own
MaxTokens == 2      \* words of a text given to preprocess_question on its own

\* ------------------------------------------------------------------- text
LowerLetters ==
    <<"a","b","c","d","e","f","g","h","i","j","k","l","m",
      "n","o","p","q","r","s","t","u","v","w","x","y","z">>
UpperLetters ==
    <<"A","B","C","D","E","F","G","H","I","J","K","L","M",
      "N","O","P","Q","R","S","T","U","V","W","X","Y","Z">>

\* str.lower() on one character
LowerChar(c) ==
    IF \E i \in 1..26 : UpperLetters[i] = c
    THEN LowerLetters[CHOOSE i \in 1..26 : UpperLetters[i] = c]
    ELSE c

\* str.upper() on one character
UpperChar(c) ==
    IF \E i \in 1..26 : LowerLetters[i] = c
    THEN UpperLetters[CHOOSE i \in 1..26 : LowerLetters[i] = c]
    ELSE c

\* str.lower()
Lower(s) == [i \in 1..Len(s) |-> LowerChar(s[i])]

\* str.capitalize(): first character upper-cased, the rest lower-cased
Capitalize(s) ==
    [i \in 1..Len(s) |-> IF i = 1 THEN UpperChar(s[i]) ELSE LowerChar(s[i])]

IsSpace(c) == c = " "
PunctChars == {"?", ",", "."}

\* str.strip()
RECURSIVE StripLeft(_)
StripLeft(s) ==
    IF s # <<>> /\ IsSpace(Head(s)) THEN StripLeft(Tail(s)) ELSE s
RECURSIVE StripRight(_)
StripRight(s) ==
    IF s # <<>> /\ IsSpace(s[Len(s)])
    THEN StripRight(SubSeq(s, 1, Len(s) - 1)) ELSE s
Strip(s) == StripRight(StripLeft(s))

\* kw in s
Contains(s, kw) ==
    \E i \in 1..(Len(s) - Len(kw) + 1) : SubSeq(s, i, i + Len(kw) - 1) = kw

\* ' '.join(tokens)
RECURSIVE Join(_)
Join(toks) ==
    IF toks = <<>> THEN <<>>
    ELSE IF Len(toks) = 1 THEN toks[1]
    ELSE toks[1] \o <<" ">> \o Join(Tail(toks))

\* words used to build texts
W_Summarize == <<"S","u","m","m","a","r","i","z","e">>
W_SUMMARY   == <<"S","U","M","M","A","R","Y">>
W_summary   == <<"s","u","m","m","a","r","y">>
W_summarize == <<"s","u","m","m","a","r","i","z","e">>
W_shows     == <<"s","h","o","w","s">>
W_show      == <<"s","h","o","w">>
W_the       == <<"t","h","e">>
W_refund    == <<"r","e","f","u","n","d">>
W_policies  == <<"p","o","l","i","c","i","e","s">>
W_policy    == <<"p","o","l","i","c","y">>
W_qmark     == <<"?">>

\* nlp(question): the tokenizer splits at whitespace and sets punctuation
\* characters apart as tokens of their own
RECURSIVE Tokenize(_, _)
Tokenize(s, cur) ==
    IF s = <<>> THEN (IF cur = <<>> THEN <<>> ELSE <<cur>>)
    ELSE IF IsSpace(Head(s))
         THEN (IF cur = <<>> THEN <<>> ELSE <<cur>>) \o Tokenize(Tail(s), <<>>)
    ELSE IF Head(s) \in PunctChars
         THEN (IF cur = <<>> THEN <<>> ELSE <<cur>>) \o << <<Head(s)>> >>
              \o Tokenize(Tail(s), <<>>)
    ELSE Tokenize(Tail(s), Append(cur, Head(s)))
nlp(s) == Tokenize(s, <<>>)

\* token.is_punct
is_punct(tok) == \A i \in 1..Len(tok) : tok[i] \in PunctChars

\* token.is_stop: the lower-cased token is in the language's stop list
\* ("the" and "show" both are in en_core_web_sm's)
STOP_WORDS == {W_the, W_show}
is_stop(tok) == Lower(tok) \in STOP_WORDS

\* token.lemma_
lemma_(tok) ==
    CASE Lower(tok) = W_shows    -> W_show
      [] Lower(tok) = W_policies -> W_policy
      [] OTHER                   -> tok

RECURSIVE PreprocessTokens(_)
PreprocessTokens(doc) ==
    IF doc = <<>> THEN <<>>
    ELSE IF ~is_punct(Head(doc)) /\ ~is_stop(Head(doc))
         THEN <<Lower(lemma_(Head(doc)))>> \o PreprocessTokens(Tail(doc))
         ELSE PreprocessTokens(Tail(doc))

preprocess_question(question) ==
    Capitalize(Join(PreprocessTokens(nlp(Strip(question)))))

\* -------------------------------------------------------------- documents
Files == {"f1", "f2"}
Texts == {"Confidential", "alpha", "beta"}

\* the text of each page of a PDF, as the pieces the separators
\* ("\n\n", "\n", " ") delimit; every piece fills a chunk of its own
PdfPages(f) ==
    CASE f = "f1" -> << <<"Confidential">> >>
      [] f = "f2" -> << <<"beta", "beta">>, <<"Confidential">> >>

\* PyPDFLoader(...).load(): one document per page
get_pdf_text(f) ==
    [p \in 1..Len(PdfPages(f)) |->
        [pieces |-> PdfPages(f)[p], source |-> f, page |-> p]]

\* text_splitter.split_documents: the chunks of each document in turn, each
\* with a copy of the document's metadata
RECURSIVE split_document(_)
split_document(documents) ==
    IF documents = <<>> THEN <<>>
    ELSE LET d == Head(documents) IN
         [i \in 1..Len(d.pieces) |->
            [page_content |-> d.pieces[i], source |-> d.source, page |-> d.page]]
         \o split_document(Tail(documents))

\* documents = file_documents in place of documents.extend(file_documents)
CombinedDocuments_LastOnly(files) ==
    IF files = <<>> THEN <<>> ELSE get_pdf_text(files[Len(files)])

\* documents.extend(file_documents) over the files in order
RECURSIVE CombinedDocuments(_)
CombinedDocuments(files) ==
    IF files = <<>> THEN <<>>
    ELSE get_pdf_text(Head(files)) \o CombinedDocuments(Tail(files))

\* str(uuid.uuid5(uuid.NAMESPACE_DNS, text)): a digest of the text alone;
\* the texts of the model have digests that differ
uuid5(text) ==
    CASE text = "Confidential" -> 30
      [] text = "alpha"        -> 10
      [] text = "beta"         -> 20

\* ----------------------------------------------------- create_vectorstore
\* the loop over zip(chunks, ids): a chunk is kept the first time its id
\* is seen
RECURSIVE UniqueFrom(_, _)
UniqueFrom(chunks, seen) ==
    IF chunks = <<>> THEN <<>>
    ELSE LET id == uuid5(Head(chunks).page_content) IN
         IF id \notin seen
         THEN <<Head(chunks)>> \o UniqueFrom(Tail(chunks), seen \cup {id})
         ELSE UniqueFrom(Tail(chunks), seen)
\* every chunk appended, whether its id was seen or not
unique_chunks_KeepAll(chunks) == chunks

unique_chunks(chunks) == UniqueFrom(chunks, {})

unique_ids(chunks) == {uuid5(chunks[i].page_content) : i \in 1..Len(chunks)}

\* list(a_set): the elements in the set's iteration order, which for a set
\* of strings is any order
ListOfSet(S) ==
    {l \in [1..Cardinality(S) -> S] : \A i, j \in 1..Cardinality(S) :
         i # j => l[i] # l[j]}

\* the arguments create_vectorstore passes to FAISS.from_documents
FaissArgs(chunks) ==
    {[documents |-> unique_chunks(chunks), ids |-> l] :
        l \in ListOfSet(unique_ids(chunks))}

\* FAISS.from_documents: fails on an empty list of documents
CanBuild(args) == args.documents # <<>>

\* ------------------------------------------------------------ the session
Models == {"Llama3", "Llama3.1", "Llama3.3"}
Answers == {"generated text"}

\* what the user can type into the question box
UserQuestions ==
    { Join(<<W_the, W_SUMMARY>>) \o W_qmark,
      Join(<<W_refund, W_policies>>) \o W_qmark,
      Join(<<W_the>>) \o W_qmark }

\* what the uploader can hold
RECURSIVE SeqsUpTo(_, _)
SeqsUpTo(S, n) ==
    IF n = 0 THEN {<<>>}
    ELSE LET shorter == SeqsUpTo(S, n - 1) IN
         shorter \cup {Append(q, x) : q \in shorter, x \in S}
FileLists == SeqsUpTo(Files, MaxFiles)

\* key in st.session_state
Has(key) == key \in DOMAIN session_state

\* st.session_state.key = value
Store(state, key, value) ==
    [k \in DOMAIN state \cup {key} |-> IF k = key THEN value ELSE state[k]]

\* the keywords looked for in the question as typed
IsSummarize_CaseSensitive(user_question) ==
    \E keyword \in {W_summarize, W_summary} : Contains(user_question, keyword)

\* the Send handler's test of the question
IsSummarize(user_question) ==
    \E keyword \in {W_summarize, W_summary} :
        Contains(Lower(user_question), keyword)
route(user_question) ==
    IF IsSummarize(user_question) THEN "summary_function" ELSE "query_document"

\* retriever.invoke(topic) with search_type="similarity": the k nearest
\* documents of the index, whatever the query.  Their order is the embedding
\* model's and is left out: a result is the set of the documents returned
RetrieverK == 4
Retrieve(store) ==
    LET docs == {store.documents[i] : i \in 1..Len(store.documents)}
        k == IF Cardinality(docs) < RetrieverK
             THEN Cardinality(docs) ELSE RetrieverK
    IN {hits \in SUBSET docs : Cardinality(hits) = k}

RECURSIVE SumLen(_, _)
SumLen(history, D) ==
    IF D = {} THEN 0
    ELSE LET m == CHOOSE m \in D : TRUE
         IN Len(history[m]) + SumLen(history, D \ {m})
Turns(history) == SumLen(history, DOMAIN history)

Init ==
    /\ google_api_key \in BOOLEAN
    /\ groqcloud_api_key \in BOOLEAN
    /\ pc = "client"
    /\ uploaded_file = <<>>
    /\ button = FALSE
    /\ session_state = <<>>
    /\ shown = {}
    /\ page_loaded = FALSE
    /\ arg_chunks = <<>>
    /\ handed = <<>>
    /\ query = <<>>
    /\ norm = <<>>

env == <<google_api_key, groqcloud_api_key>>
widgets == <<uploaded_file, button>>
run == <<shown, page_loaded, arg_chunks, handed, query>>

\* a widget interaction starts a new run of the script
StartRun ==
    /\ pc' = "client"
    /\ shown' = {}
    /\ page_loaded' = FALSE
    /\ arg_chunks' = <<>>
    /\ handed' = <<>>
    /\ query' = <<>>
    /\ UNCHANGED <<env, session_state, norm>>

\* the user adds or removes files in the uploader
ChangeFiles ==
    /\ pc = "idle"
    /\ \E files \in FileLists \ {uploaded_file} : uploaded_file' = files
    /\ button' = FALSE
    /\ StartRun

\* the user presses Send, which the page shows once uploaded is true
PressSend ==
    /\ pc = "idle"
    /\ Has("uploaded") /\ session_state.uploaded
    /\ button' = TRUE
    /\ UNCHANGED uploaded_file
    /\ StartRun

\* the user changes the model, the question or the history checkbox
ChangeWidget ==
    /\ pc = "idle"
    /\ button' = FALSE
    /\ UNCHANGED uploaded_file
    /\ StartRun

\* client = Groq(): raises when GROQ_API_KEY is not set
ConstructClient ==
    /\ pc = "client"
    /\ groqcloud_api_key
    /\ pc' = "check"
    /\ UNCHANGED <<env, session_state, widgets, run, norm>>

ConstructClientFails ==
    /\ pc = "client"
    /\ ~groqcloud_api_key
    /\ shown' = shown \cup {"GroqError"}
    /\ pc' = "idle"
    /\ UNCHANGED <<env, session_state, widgets, page_loaded, arg_chunks,
                   handed, query, norm>>

\* if not groqcloud_api_key: st.error(...)
CheckApiKey ==
    /\ pc = "check"
    /\ shown' = IF ~groqcloud_api_key
                THEN shown \cup {"st.error: GroqCloud API key not found"}
                ELSE shown
    /\ pc' = "page"
    /\ UNCHANGED <<env, session_state, widgets, page_loaded, arg_chunks,
                   handed, query, norm>>

\* the uploaded flag set to False in every run
LoadPage_Unconditional ==
    /\ pc = "page"
    /\ session_state' = Store(session_state, "uploaded", FALSE)
    /\ page_loaded' = TRUE
    /\ pc' = "ingest"
    /\ UNCHANGED <<env, widgets, shown, arg_chunks, handed, query, norm>>

\* the uploaded flag's initialisation and load_streamlit_page()
LoadPage ==
    /\ pc = "page"
    /\ session_state' = IF ~Has("uploaded")
                        THEN Store(session_state, "uploaded", FALSE)
                        ELSE session_state
    /\ page_loaded' = TRUE
    /\ pc' = "ingest"
    /\ UNCHANGED <<env, widgets, shown, arg_chunks, handed, query, norm>>

\* if uploaded_file: with no file in the uploader
IngestSkip ==
    /\ pc = "ingest"
    /\ uploaded_file = <<>>
    /\ pc' = "history"
    /\ UNCHANGED <<env, session_state, widgets, run, norm>>

\* get_pdf_text raises on one of the files
IngestParseError ==
    /\ pc = "ingest"
    /\ uploaded_file # <<>>
    /\ shown' = shown \cup {"get_pdf_text raised"}
    /\ pc' = "idle"
    /\ UNCHANGED <<env, session_state, widgets, page_loaded, arg_chunks,
                   handed, query, norm>>

\* the index reference assigned before the embedding call raises
IngestIndexError_Partial ==
    /\ pc = "ingest"
    /\ uploaded_file # <<>>
    /\ LET docs == split_document(CombinedDocuments(uploaded_file)) IN
       /\ arg_chunks' = Append(arg_chunks, docs)
       /\ \E args \in FaissArgs(docs) :
            /\ handed' = Append(handed, args)
            /\ session_state' = Store(session_state, "vector_store",
                   [args EXCEPT !.documents = <<>>, !.ids = <<>>])
    /\ shown' = shown \cup {"create_vectorstore raised"}
    /\ pc' = "idle"
    /\ UNCHANGED <<env, widgets, page_loaded, query, norm>>

\* create_vectorstore_from_texts raises in the embedding or the index call
IngestIndexError ==
    /\ pc = "ingest"
    /\ uploaded_file # <<>>
    /\ LET docs == split_document(CombinedDocuments(uploaded_file)) IN
       /\ arg_chunks' = Append(arg_chunks, docs)
       /\ \E args \in FaissArgs(docs) : handed' = Append(handed, args)
    /\ shown' = shown \cup {"create_vectorstore raised"}
    /\ pc' = "idle"
    /\ UNCHANGED <<env, session_state, widgets, page_loaded, query, norm>>

\* the upload section runs to its end
IngestOk ==
    /\ pc = "ingest"
    /\ uploaded_file # <<>>
    /\ google_api_key
    /\ LET docs == split_document(CombinedDocuments(uploaded_file)) IN
       /\ arg_chunks' = Append(arg_chunks, docs)
       /\ \E args \in FaissArgs(docs) :
            /\ CanBuild(args)
            /\ handed' = Append(handed, args)
            /\ session_state' =
                 Store(Store(session_state, "vector_store", args),
                       "uploaded", TRUE)
    /\ pc' = "history"
    /\ UNCHANGED <<env, widgets, shown, page_loaded, query, norm>>

\* if "chat_history" not in st.session_state
InitHistory ==
    /\ pc = "history"
    /\ session_state' = IF ~Has("chat_history")
                        THEN Store(session_state, "chat_history", <<>>)
                        ELSE session_state
    /\ pc' = "answer"
    /\ UNCHANGED <<env, widgets, run, norm>>

\* if not st.session_state.uploaded: st.info(...)
NotUploaded ==
    /\ pc = "answer"
    /\ ~session_state.uploaded
    /\ shown' = shown \cup {"st.info: Please upload PDF document first."}
    /\ pc' = "idle"
    /\ UNCHANGED <<env, session_state, widgets, page_loaded, arg_chunks,
                   handed, query, norm>>

\* the else branch when Send was not pressed: only the history is displayed
NoSend ==
    /\ pc = "answer"
    /\ session_state.uploaded
    /\ ~button
    /\ pc' = "idle"
    /\ UNCHANGED <<env, session_state, widgets, run, norm>>

\* the call of summary_function or query_document, up to the retrieval
Call(model_name, user_question) ==
    [fn |-> route(user_question), model_name |-> model_name,
     user_question |-> user_question,
     topic |-> preprocess_question(user_question),
     retrieved |-> FALSE, relevant_chunks |-> {}, answer |-> ""]

\* the selected model's list created anew for every turn
Record_Reset(chat_history, model_name, turn) ==
    Store(chat_history, model_name, <<turn>>)

\* the turn is appended to the selected model's list, which is created empty
\* when the model has none
Record(chat_history, model_name, turn) ==
    LET old == IF model_name \in DOMAIN chat_history
               THEN chat_history[model_name] ELSE <<>>
    IN Store(chat_history, model_name, Append(old, turn))

\* Send: st.session_state.vector_store is missing, or retriever.invoke raises
SendRetrievalFails ==
    /\ pc = "answer"
    /\ session_state.uploaded
    /\ button
    /\ \E model_name \in Models, user_question \in UserQuestions :
          query' = Append(query, Call(model_name, user_question))
    /\ shown' = shown \cup
           {IF ~Has("vector_store") THEN "AttributeError" ELSE "retriever raised"}
    /\ pc' = "idle"
    /\ UNCHANGED <<env, session_state, widgets, page_loaded, arg_chunks,
                   handed, norm>>

\* Send: client.chat.completions.create raises
SendGenerationFails ==
    /\ pc = "answer"
    /\ session_state.uploaded
    /\ button
    /\ Has("vector_store")
    /\ \E model_name \in Models, user_question \in UserQuestions,
          hits \in Retrieve(session_state.vector_store) :
          query' = Append(query, [Call(model_name, user_question) EXCEPT
                        !.retrieved = TRUE, !.relevant_chunks = hits])
    /\ shown' = shown \cup {"completion raised"}
    /\ pc' = "idle"
    /\ UNCHANGED <<env, session_state, widgets, page_loaded, arg_chunks,
                   handed, norm>>

\* Send: the question is answered and recorded
SendOk ==
    /\ pc = "answer"
    /\ session_state.uploaded
    /\ button
    /\ Has("vector_store")
    /\ Turns(session_state.chat_history) < MaxTurns
    /\ \E model_name \in Models, user_question \in UserQuestions,
          hits \in Retrieve(session_state.vector_store), answer \in Answers :
          /\ query' = Append(query, [Call(model_name, user_question) EXCEPT
                          !.retrieved = TRUE, !.relevant_chunks = hits,
                          !.answer = answer])
          /\ session_state' = Store(session_state, "chat_history",
                 Record(session_state.chat_history, model_name,
                        [question |-> user_question, answer |-> answer]))
    /\ shown' = shown \cup {"st.write: answer"}
    /\ pc' = "idle"
    /\ UNCHANGED <<env, widgets, page_loaded, arg_chunks, handed, norm>>

Next ==
    \/ ChangeFiles \/ PressSend \/ ChangeWidget
    \/ ConstructClient \/ ConstructClientFails \/ CheckApiKey \/ LoadPage
    \/ IngestSkip \/ IngestParseError \/ IngestIndexError \/ IngestOk
    \/ InitHistory \/ NotUploaded \/ NoSend
    \/ SendRetrievalFails \/ SendGenerationFails \/ SendOk

Spec == Init /\ [][Next]_vars

\* ------------------------------------------- create_vectorstore on its own
ChunkValues == [page_content : Texts, source : Files, page : {1}]

InitDedup ==
    /\ google_api_key = TRUE
    /\ groqcloud_api_key = TRUE
    /\ pc = "create_vectorstore"
    /\ uploaded_file = <<>>
    /\ button = FALSE
    /\ session_state = <<>>
    /\ shown = {}
    /\ page_loaded = FALSE
    /\ \E chunks \in SeqsUpTo(ChunkValues, MaxChunks) : arg_chunks = <<chunks>>
    /\ handed = <<>>
    /\ query = <<>>
    /\ norm = <<>>

\* create_vectorstore returns the index FAISS.from_documents built
CreateVectorstoreReturns ==
    /\ pc = "create_vectorstore"
    /\ \E args \in FaissArgs(arg_chunks[1]) :
          /\ CanBuild(args)
          /\ handed' = Append(handed, args)
    /\ pc' = "returned"
    /\ UNCHANGED <<env, session_state, widgets, shown, page_loaded,
                   arg_chunks, query, norm>>

\* FAISS.from_documents raises
CreateVectorstoreRaises ==
    /\ pc = "create_vectorstore"
    /\ \E args \in FaissArgs(arg_chunks[1]) : handed' = Append(handed, args)
    /\ shown' = shown \cup {"create_vectorstore raised"}
    /\ pc' = "raised"
    /\ UNCHANGED <<env, session_state, widgets, page_loaded, arg_chunks,
                   query, norm>>

NextDedup == CreateVectorstoreReturns \/ CreateVectorstoreRaises

SpecDedup == InitDedup /\ [][NextDedup]_vars

\* ------------------------------------------ preprocess_question on its own
Vocabulary ==
    {W_Summarize, W_SUMMARY, W_shows, W_the, W_refund, W_policies, W_qmark}

\* texts of up to MaxTokens words, with or without surrounding blanks
NormInputs ==
    LET joined == {Join(ws) : ws \in SeqsUpTo(Vocabulary, MaxTokens)}
    IN joined \cup {<<" ">> \o t \o <<" ">> : t \in joined}

InitNorm ==
    /\ google_api_key = TRUE
    /\ groqcloud_api_key = TRUE
    /\ pc = "preprocess_question"
    /\ uploaded_file = <<>>
    /\ button = FALSE
    /\ session_state = <<>>
    /\ shown = {}
    /\ page_loaded = FALSE
    /\ arg_chunks = <<>>
    /\ handed = <<>>
    /\ query = <<>>
    /\ \E x \in NormInputs : norm = <<x>>

\* one more pass of preprocess_question over the last result
Preprocess ==
    /\ pc = "preprocess_question"
    /\ Len(norm) < 3
    /\ norm' = Append(norm, preprocess_question(norm[Len(norm)]))
    /\ UNCHANGED <<env, pc, session_state, widgets, run>>

NextNorm == Preprocess

SpecNorm == InitNorm /\ [][NextNorm]_vars

\* ================================================================= claims
TextsOf(chunks) == {chunks[i].page_content : i \in 1..Len(chunks)}

\* the position of the first chunk of the sequence with this text
FirstAt(chunks, text) ==
    CHOOSE i \in 1..Len(chunks) :
        /\ chunks[i].page_content = text
        /\ \A j \in 1..(i - 1) : chunks[j].page_content # text

\* C1: in every call of create_vectorstore the chunks handed to the index
\* have pairwise different texts, are the first occurrences of their texts
\* in the input in the input's order, are no more than the input, and every
\* text of the input is handed over exactly once.
C1_DedupInvariant ==
    \A c \in 1..Len(handed) :
        LET input == arg_chunks[c]
            out   == handed[c].documents
        IN /\ \A i, j \in 1..Len(out) :
                 i # j => out[i].page_content # out[j].page_content
           /\ Len(out) <= Len(input)
           /\ \A i \in 1..Len(out) :
                 /\ out[i].page_content \in TextsOf(input)
                 /\ out[i] = input[FirstAt(input, out[i].page_content)]
           /\ \A i, j \in 1..Len(out) :
                 i < j => FirstAt(input, out[i].page_content)
                            < FirstAt(input, out[j].page_content)
           /\ \A t \in TextsOf(input) :
                 Cardinality({i \in 1..Len(out) : out[i].page_content = t}) = 1

\* the same text came in from two different documents and was handed over
\* together with another text
C1_Witness ==
    /\ Len(handed) = 1
    /\ LET input == arg_chunks[1] IN
       /\ \E i, j \in 1..Len(input) :
             /\ i < j
             /\ input[i].page_content = input[j].page_content
             /\ input[i].source # input[j].source
       /\ Len(handed[1].documents) = 2

\* the text has the keyword at offset i
HasAt(s, kw, i) ==
    /\ i + Len(kw) - 1 <= Len(s)
    /\ \A j \in 1..Len(kw) : s[i + j - 1] = kw[j]
\* the call recorded is the one the keywords of the question select
C2_RouteState ==
    /\ Len(query) <= 1
    /\ \A c \in 1..Len(query) :
          LET low == Lower(query[c].user_question)
              hit == \E kw \in {W_summarize, W_summary} :
                        \E i \in 1..Len(low) : HasAt(low, kw, i)
          IN /\ query[c].fn \in {"summary_function", "query_document"}
             /\ query[c].fn = "summary_function" <=> hit
\* the Send handler makes one call, and the step making a call leaves the
\* session's other keys alone
C2_RouteStep ==
    /\ (pc = "answer" /\ session_state.uploaded /\ button) => Len(query') = 1
    /\ query' # query =>
          /\ DOMAIN session_state' = DOMAIN session_state
          /\ \A key \in DOMAIN session_state \ {"chat_history"} :
                session_state'[key] = session_state[key]

\* C2: the question goes to summary_function exactly when its lower-cased
\* text has "summarize" or "summary" at some offset and to query_document
\* otherwise; a run of the Send handler makes exactly one such call; the step
\* that makes it changes nothing of the session but the chat history.
C2_Route == [](C2_RouteState) /\ [][C2_RouteStep]_vars

\* a question written in capitals went to summary_function
C2_Witness ==
    /\ Len(query) = 1
    /\ query[1].fn = "summary_function"
    /\ Contains(query[1].user_question, W_SUMMARY)

\* the lists of the chat history, empty for a model without one
HistoryOf(state) ==
    IF "chat_history" \in DOMAIN state THEN state.chat_history ELSE <<>>
ListOf(history, m) == IF m \in DOMAIN history THEN history[m] ELSE <<>>
Answered(calls) == calls # <<>> /\ calls[Len(calls)].answer \in Answers

\* what one step may do to the lists
C3_Step ==
    LET old == HistoryOf(session_state)
        new == HistoryOf(session_state')
    IN /\ \A m \in Models :
             /\ Len(ListOf(old, m)) <= Len(ListOf(new, m))
             /\ SubSeq(ListOf(new, m), 1, Len(ListOf(old, m))) = ListOf(old, m)
       /\ IF query' # query /\ Answered(query')
          THEN LET call == query'[Len(query')] IN
               \A m \in Models :
                  ListOf(new, m) =
                     IF m = call.model_name
                     THEN Append(ListOf(old, m),
                                 [question |-> call.user_question,
                                  answer |-> call.answer])
                     ELSE ListOf(old, m)
          ELSE \A m \in Models : ListOf(new, m) = ListOf(old, m)

\* C3: every step leaves each model's list a prefix of its new value; the
\* step that answers a question appends the (question, answer) turn to the
\* selected model's list and to no other; every other step leaves all lists
\* as they are.
C3_AppendOnly == [][C3_Step]_vars

\* a second turn was appended behind a first one, and later a completion
\* failed with the history in place
C3_Witness ==
    /\ "completion raised" \in shown
    /\ \E m \in Models : Len(ListOf(HistoryOf(session_state), m)) = 2

IngestSucceeded ==
    /\ handed # <<>>
    /\ "create_vectorstore raised" \notin shown

FirstIndex(files, f) == CHOOSE i \in 1..Len(files) :
    files[i] = f /\ \A j \in 1..(i - 1) : files[j] # f

\* C4: after a run whose ingestion succeeded, the index of the session holds
\* a chunk for every piece of text of every file of the run and for nothing
\* else, each chunk with the file and page it was first read from, in the
\* order of the files and their pages.
C4_IndexOfRun ==
    IngestSucceeded =>
        /\ "vector_store" \in DOMAIN session_state
        /\ LET docs == session_state.vector_store.documents
               inRun == {uploaded_file[i] : i \in 1..Len(uploaded_file)}
               pieces(f, p) ==
                   {PdfPages(f)[p][k] : k \in 1..Len(PdfPages(f)[p])}
               allPieces(f) ==
                   UNION {pieces(f, p) : p \in 1..Len(PdfPages(f))}
           IN /\ TextsOf(docs) = UNION {allPieces(f) : f \in inRun}
              /\ \A i \in 1..Len(docs) :
                    /\ docs[i].source \in inRun
                    /\ docs[i].page \in 1..Len(PdfPages(docs[i].source))
                    /\ docs[i].page_content
                          \in pieces(docs[i].source, docs[i].page)
              /\ \A i, j \in 1..Len(docs) : i < j =>
                    \/ FirstIndex(uploaded_file, docs[i].source)
                          < FirstIndex(uploaded_file, docs[j].source)
                    \/ /\ docs[i].source = docs[j].source
                       /\ docs[i].page <= docs[j].page

\* the index was rebuilt from one file in a session that had already
\* answered a question from an earlier index
C4_Witness ==
    /\ IngestSucceeded
    /\ uploaded_file = <<"f1">>
    /\ "chat_history" \in DOMAIN session_state
    /\ Turns(session_state.chat_history) > 0

\* what the step in which create_vectorstore raises may do to the session
C5_Step ==
    ("create_vectorstore raised" \in shown' /\
     "create_vectorstore raised" \notin shown) =>
        /\ DOMAIN session_state' = DOMAIN session_state
        /\ \A key \in DOMAIN session_state \cap {"vector_store", "uploaded"} :
              session_state'[key] = session_state[key]

\* C5: the step in which create_vectorstore raises leaves the session's
\* index reference and uploaded flag as they were, present or absent.
C5_FailedIngestion == [][C5_Step]_vars

\* an ingestion failed while an earlier index was referenced
C5_Witness ==
    /\ "create_vectorstore raised" \in shown
    /\ "vector_store" \in DOMAIN session_state
    /\ TextsOf(session_state.vector_store.documents)
          # TextsOf(split_document(CombinedDocuments(uploaded_file)))

\* C6: after start-up with a credential missing, the run has reached the
\* page set-up and has reported the missing credential.
C6_StartupReports ==
    (pc \notin {"client", "check", "page"} /\
     (~google_api_key \/ ~groqcloud_api_key)) =>
        /\ page_loaded
        /\ "GroqError" \notin shown
        /\ \E message \in shown :
              message = "st.error: GroqCloud API key not found"

\* C7: a call whose normalized query is empty retrieves without an error and
\* puts no chunk into the prompt context.
C7_EmptyQueryNoMatch ==
    \A c \in 1..Len(query) :
        query[c].topic = <<>> =>
            /\ query[c].retrieved
            /\ query[c].relevant_chunks = {}

\* C8: a second pass of preprocess_question returns what the first returned.
C8_Idempotent ==
    Len(norm) = 3 => norm[3] = norm[2]

\* C9: in every call of FAISS.from_documents for an input of two or more
\* different texts, the identifier at each position is the uuid5 of the text
\* of the document at that position.
C9_IdsFollowDocuments ==
    \A c \in 1..Len(handed) :
        Cardinality(TextsOf(arg_chunks[c])) >= 2 =>
            /\ Len(handed[c].ids) = Len(handed[c].documents)
            /\ \A i \in 1..Len(handed[c].documents) :
                  handed[c].ids[i] = uuid5(handed[c].documents[i].page_content)

\* st.session_state.uploaded is there and true
Flag(state) == "uploaded" \in DOMAIN state /\ state.uploaded
C10_State ==
    /\ Flag(session_state) =>
          /\ "vector_store" \in DOMAIN session_state
          /\ session_state.vector_store.documents # <<>>
          /\ Len(session_state.vector_store.ids)
                = Len(session_state.vector_store.documents)
    /\ query # <<>> => "vector_store" \in DOMAIN session_state
C10_Step == Flag(session_state) => Flag(session_state')

\* C10: whenever the uploaded flag is true the session references an index
\* that was built in full; no question is dispatched without one; no step
\* takes the flag from true to false or removes it.
C10_UploadedImpliesIndex == [](C10_State) /\ [][C10_Step]_vars

\* a question was dispatched in a run after all files had been removed
C10_Witness ==
    /\ query # <<>>
    /\ uploaded_file = <<>>
    /\ Flag(session_state)

====
